---- MODULE Spec2Model ----
(***************************************************************************)
(* drawboy: pattern navigation and progress estimation.                    *)
(*                                                                         *)
(* The model follows src/src/app.rs (MyApp), src/src/ewma.rs (Ewma) and    *)
(* src/src/app/pedal.rs (watch_pedal).  One update cycle of the egui       *)
(* application is MyApp::update; the pedal watcher and the pattern loader  *)
(* are threads that share pedal_pressed, wif and wif_path with it.         *)
(*                                                                         *)
(* Time is counted in whole seconds; the f32 fields of Ewma are modelled   *)
(* as exact rationals <<numerator, denominator>>.                          *)
(***************************************************************************)
EXTENDS Integers, Sequences, FiniteSets, TLC

(***************************************************************************)
(* Bounds of the model.                                                    *)
(***************************************************************************)
\* the clock runs from 0 to MaxTime seconds
MaxTime == 2
\* no more than MaxSamples samples are fed to one estimator before a reset
MaxSamples == 4
\* number of pedal presses the watcher thread delivers in one run
MaxPresses == 2
\* largest thread index drawn for the window calculators
MaxThread == 26
\* thread count of the built-in pattern's weft; the other patterns are
\* sized around it
MaxCount == 4
\* loader threads of File > Open alive at once
MaxLoaders == 1
\* largest sample count a drawn estimator holds, and the number of samples
\* recorded into it one after the other
MaxN == 21
MaxRecords == 2

\* the cycles of a session in which samples are counted
MaxCycles == 3

(***************************************************************************)
(* Program constants.                                                      *)
(***************************************************************************)
\* threading_batch_size default, MyApp::new
DefaultBatch == 8
\* DragValue range of threading_batch_size, MyApp::update
MinBatch == 1
MaxBatch == 25
\* Ewma::record uses the warm-up weight while n < 20
WarmUp == 20

(***************************************************************************)
(* Exact rationals for the f32 arithmetic of Ewma.                         *)
(***************************************************************************)
RECURSIVE Gcd(_, _)
Gcd(a, b) == IF b = 0 THEN a ELSE Gcd(b, a % b)

Abs(x) == IF x < 0 THEN -x ELSE x

Rat(n, d) ==
    LET g == Gcd(Abs(n), d) IN <<n \div g, d \div g>>

RAdd(x, y) == Rat(x[1] * y[2] + y[1] * x[2], x[2] * y[2])
RSub(x, y) == Rat(x[1] * y[2] - y[1] * x[2], x[2] * y[2])
RMul(x, y) == Rat(x[1] * y[1], x[2] * y[2])
RInt(n) == <<n, 1>>
RLess(x, y) == x[1] * y[2] < y[1] * x[2]
\* truncation toward zero of a non-negative rational (f32 as u64)
RTrunc(x) == x[1] \div x[2]

(***************************************************************************)
(* Ewma (src/src/ewma.rs).                                                 *)
(***************************************************************************)
\* Ewma::new(alpha)
EwmaNew(alpha) == [alpha |-> alpha, value |-> RInt(0), n |-> 0]

\* RecordWeight with the warm-up ending one sample late
RecordWeightLateSteady(e) ==
    IF e.n <= WarmUp
    THEN RAdd(e.alpha, RMul(Rat(1, 1 + e.n), RSub(RInt(1), e.alpha)))
    ELSE e.alpha

\* the weight of the measurement in Ewma::record, by the count n before it
RecordWeight(e) ==
    IF e.n < WarmUp
    THEN RAdd(e.alpha, RMul(Rat(1, 1 + e.n), RSub(RInt(1), e.alpha)))
    ELSE e.alpha

\* Ewma::record as the plain moving average: no first-sample assignment and
\* no warm-up weight
EwmaRecordSteadyOnly(e, measurement) ==
    [e EXCEPT !.value = RAdd(RMul(e.alpha, measurement),
                             RMul(RSub(RInt(1), e.alpha), e.value)),
              !.n = e.n + 1]

\* Ewma::reset() clearing the count only
EwmaResetCountOnly(e) == [e EXCEPT !.n = 0]

\* Ewma::record(measurement)
EwmaRecord(e, measurement) ==
    LET v0 == IF e.n = 0 THEN measurement ELSE e.value
        w  == RecordWeight(e)
    IN [e EXCEPT !.value = RAdd(RMul(w, measurement), RMul(RSub(RInt(1), w), v0)),
                 !.n = e.n + 1]

\* Ewma::reset()
EwmaReset(e) == [e EXCEPT !.n = 0, !.value = RInt(0)]

\* Ewma::value()
EwmaValue(e) == e.value

(***************************************************************************)
(* Pattern data (the fields of wif::Wif that MyApp reads).                 *)
(***************************************************************************)
\* Option<T>: None is the empty sequence, Some(x) the sequence of x alone
None == <<>>
Some(x) == <<x>>
\* Option::unwrap_or
UnwrapOr(o, d) == IF o = None THEN d ELSE o[1]

\* OperationMode and ThreadingMode
Liftplan == "liftplan"
Treadling == "treadling"
Threading == "threading"
OperationMode == {Liftplan, Treadling, Threading}
Continuous == "continuous"
Batched == "batched"
ThreadingMode == {Continuous, Batched}

\* a parsed pattern: the thread counts of its WEFT and WARP sections
\* (None when the section is absent)
MkWif(weft, warp) == [weft |-> weft, warp |-> warp]

\* the pattern built into the binary, and the patterns found on disk
FallbackWif == MkWif(Some(MaxCount), Some(MaxCount - 1))
Files == {"small.wif", "bare.wif"}
FileWif(f) ==
    IF f = "small.wif" THEN MkWif(Some(2), Some(MaxCount + 1))
    ELSE MkWif(None, Some(1))
Patterns == {FallbackWif} \cup {FileWif(f) : f \in Files}

(***************************************************************************)
(* State.                                                                  *)
(***************************************************************************)
VARIABLES
    app,            \* the fields MyApp owns: row, warp, average_row_speed,
                    \* last_t, timer_paused, mode, threading_mode,
                    \* threading_batch_size
    wif,            \* Arc<RwLock<Wif>>, shared with the loader threads
    wif_path,       \* Arc<RwLock<Option<PathBuf>>>, shared with the loaders
    pedal_pressed,  \* Arc<AtomicBool>, shared with the pedal watcher
    now,            \* the clock read by Instant::now()
    upd,            \* MyApp::update in progress: its position and locals
    frame,          \* what the last finished update cycle did and displayed
    prev,           \* history: the update cycle before that one, in short
    run,            \* history: the Advances done since the initial state
    obs,            \* history of the pedal flag: presses stored, observed, erased
    loaders,        \* the threads spawned by File > Open: position and locals
    storage         \* eframe's key-value store: the string kept under each key

vars == <<app, wif, wif_path, pedal_pressed, now, upd, frame, prev, run, obs,
          loaders, storage>>

\* MyApp::threading_mode()
threading_mode(a) == a.mode = Threading

\* the position field the mode selects (var in control_buttons, row in timings)
Active(a) == IF threading_mode(a) THEN a.warp ELSE a.row

SetActive(a, v) ==
    IF threading_mode(a) THEN [a EXCEPT !.warp = v] ELSE [a EXCEPT !.row = v]

\* last_row in MyApp::update: the thread count of the section the mode selects
LastRow(a, w) ==
    IF threading_mode(a) THEN UnwrapOr(w.warp, 1) ELSE UnwrapOr(w.weft, 1)

(***************************************************************************)
(* The operator's input to one update cycle.  egui reports at most one     *)
(* widget as clicked or edited in a frame; the pedal is read separately.   *)
(***************************************************************************)
Ui(kind, v, m) == [kind |-> kind, v |-> v, m |-> m]
NoUi == Ui("none", 0, "")

\* DragValue with .range(lo..=hi): the value typed (if any) replaces the
\* existing one, and the result is clamped into the range
Clamp(v, lo, hi) == IF v < lo THEN lo ELSE IF v > hi THEN hi ELSE v

(***************************************************************************)
(* MyApp::menus: the Mode radio buttons write self.mode.                   *)
(***************************************************************************)
menus(a, ui) ==
    IF ui.kind = "mode" THEN [a EXCEPT !.mode = ui.m] ELSE a

(***************************************************************************)
(* MyApp::row_counter: the DragValue of the active position, range         *)
(* 1..=last_row, clamp_existing_to_range(true); last_t restarts when the   *)
(* widget reports a change.  egui's DragValue reports a change whenever    *)
(* the value it leaves differs from the value it found, so a clamp of an   *)
(* out-of-range position counts as one.                                    *)
(***************************************************************************)
\* row_counter clamping what the operator types, not the value it finds
row_counter_typed_only(a, ui, last_row, t) ==
    IF ui.kind = "set" /\ Clamp(ui.v, 1, last_row) # Active(a)
    THEN [SetActive(a, Clamp(ui.v, 1, last_row)) EXCEPT !.last_t = t]
    ELSE a

row_counter(a, ui, last_row, t) ==
    LET old == Active(a)
        new == Clamp(IF ui.kind = "set" THEN ui.v ELSE old, 1, last_row)
    IN IF new # old
       THEN [SetActive(a, new) EXCEPT !.last_t = t]
       ELSE a

(***************************************************************************)
(* MyApp::update, lines 442-454: the sub-mode radio buttons and the batch  *)
(* size DragValue, shown in Threading mode only.                           *)
(***************************************************************************)
threading_controls(a, ui) ==
    IF ~threading_mode(a) THEN a
    ELSE LET a1 == IF ui.kind = "submode"
                   THEN [a EXCEPT !.threading_mode = ui.m] ELSE a
         IN [a1 EXCEPT !.threading_batch_size =
                Clamp(IF ui.kind = "batch" THEN ui.v ELSE @, MinBatch, MaxBatch)]

(***************************************************************************)
(* MyApp::control_buttons.                                                 *)
(***************************************************************************)
\* AdvancePos without the wrap
AdvancePosNoWrap(p, last_row) == p + 1

\* AdvancePos with the wrap test written >= instead of >
AdvancePosEarlyWrap(p, last_row) ==
    IF p + 1 >= last_row THEN 1 ELSE p + 1

\* lines 142-145: *var += 1; if *var > last_row { *var = 1 }
\* (row_counter has clamped *var to last_row, a thread count far below
\* u32::MAX, so the increment does not overflow)
AdvancePos(p, last_row) ==
    IF p + 1 > last_row THEN 1 ELSE p + 1

\* RetreatPos without the test for 0
RetreatPosToZero(p, last_row) ==
    IF p >= 1 THEN p - 1 ELSE last_row

\* lines 159-167: checked_sub(1), and last_row in place of 0 or of underflow
RetreatPos(p, last_row) ==
    IF p >= 1
    THEN (IF p - 1 = 0 THEN last_row ELSE p - 1)
    ELSE last_row

\* NextFires deaf to the pedal
NextFiresButtonOnly(ui, pedal) == ui.kind = "next"

\* the "Next" branch fires on the button or on the pedal value of this cycle
NextFires(ui, pedal) == ui.kind = "next" \/ pedal

\* Advance with the pause test inverted
AdvanceRecordsWhenPaused(a, last_row, t) ==
    LET a1 == SetActive(a, AdvancePos(Active(a), last_row))
        a2 == IF a1.timer_paused
              THEN [a1 EXCEPT !.average_row_speed = EwmaRecord(@, RInt(t - a.last_t))]
              ELSE a1
    IN [a2 EXCEPT !.last_t = t]

\* lines 141-151
Advance(a, last_row, t) ==
    LET a1 == SetActive(a, AdvancePos(Active(a), last_row))
        a2 == IF ~a1.timer_paused
              THEN [a1 EXCEPT !.average_row_speed = EwmaRecord(@, RInt(t - a.last_t))]
              ELSE a1
    IN [a2 EXCEPT !.last_t = t]

\* Retreat leaving the step timer running
RetreatKeepsTimer(a, last_row, t) ==
    SetActive(a, RetreatPos(Active(a), last_row))

\* Retreat recording the time since the last step, as Advance does
RetreatRecords(a, last_row, t) ==
    [SetActive(a, RetreatPos(Active(a), last_row))
        EXCEPT !.average_row_speed =
                  IF a.timer_paused THEN @ ELSE EwmaRecord(@, RInt(t - a.last_t)),
               !.last_t = t]

\* Retreat stepping back by two
RetreatTwice(a, last_row, t) ==
    [SetActive(a, RetreatPos(RetreatPos(Active(a), last_row), last_row))
        EXCEPT !.last_t = t]

\* lines 158-169
Retreat(a, last_row, t) ==
    [SetActive(a, RetreatPos(Active(a), last_row)) EXCEPT !.last_t = t]

\* control_buttons with one Advance for the button and one for the pedal
control_buttons_each(a, ui, pedal, last_row, t) ==
    LET a1 == IF ui.kind = "next" THEN Advance(a, last_row, t) ELSE a
        a2 == IF pedal THEN Advance(a1, last_row, t) ELSE a1
    IN IF ui.kind = "prev" THEN Retreat(a2, last_row, t) ELSE a2

control_buttons(a, ui, pedal, last_row, t) ==
    LET a1 == IF NextFires(ui, pedal) THEN Advance(a, last_row, t) ELSE a
    IN IF ui.kind = "prev" THEN Retreat(a1, last_row, t) ELSE a1

(***************************************************************************)
(* MyApp::timings: the ETA label and the "Reset timer" button.             *)
(***************************************************************************)
\* the display threshold of line 236
EtaThreshold == Rat(1, 10)

\* Eta shown whatever the smoothed duration is
EtaAlwaysShown(a, last_row) ==
    LET eta == RTrunc(RMul(RInt(last_row - Active(a)),
                           EwmaValue(a.average_row_speed)))
    IN Some(<<eta \div 3600, (eta % 3600) \div 60, eta % 60>>)

\* lines 236-241: None when the label is not shown, else <<h, m, s>>
Eta(a, last_row) ==
    IF RLess(EtaThreshold, EwmaValue(a.average_row_speed))
    THEN LET eta == RTrunc(RMul(RInt(last_row - Active(a)),
                                EwmaValue(a.average_row_speed)))
         IN Some(<<eta \div 3600, (eta % 3600) \div 60, eta % 60>>)
    ELSE None

timings(a, ui) ==
    IF ui.kind = "reset"
    THEN [a EXCEPT !.average_row_speed = EwmaReset(@)]
    ELSE a

(***************************************************************************)
(* MyApp::update, lines 458-464: "Pause timer" / "Unpause timer".          *)
(***************************************************************************)
\* pause_buttons with no restart of last_t on "Unpause timer"
pause_buttons_no_restart(a, ui, t) ==
    LET a1 == IF ~a.timer_paused /\ ui.kind = "pause"
              THEN [a EXCEPT !.timer_paused = TRUE] ELSE a
    IN IF a1.timer_paused /\ ui.kind = "unpause"
       THEN [a1 EXCEPT !.timer_paused = FALSE]
       ELSE a1

pause_buttons(a, ui, t) ==
    LET a1 == IF ~a.timer_paused /\ ui.kind = "pause"
              THEN [a EXCEPT !.timer_paused = TRUE] ELSE a
    IN IF a1.timer_paused /\ ui.kind = "unpause"
       THEN [a1 EXCEPT !.timer_paused = FALSE, !.last_t = t]
       ELSE a1

(***************************************************************************)
(* The window calculators.  A slot is the index it stands for, whether the *)
(* pattern data was asked for that index, and whether an empty cell is     *)
(* drawn for it.                                                           *)
(***************************************************************************)
Slot(index, lookup, placeholder) ==
    [index |-> index, lookup |-> lookup, placeholder |-> placeholder]

\* ThreadingStart with the Continuous window starting one thread back
ThreadingStartOneBack(a) ==
    IF a.threading_mode = Continuous
    THEN a.warp - 1
    ELSE ((a.warp - 1) \div a.threading_batch_size) * a.threading_batch_size + 1

\* ThreadingStart with the Batched window computed from warp, not warp - 1
ThreadingStartNoDecrement(a) ==
    IF a.threading_mode = Continuous
    THEN a.warp - 2
    ELSE (a.warp \div a.threading_batch_size) * a.threading_batch_size + 1

\* MyApp::show_threading, lines 327-335: the first index of the range
ThreadingStart(a) ==
    IF a.threading_mode = Continuous
    THEN a.warp - 2
    ELSE ((a.warp - 1) \div a.threading_batch_size) * a.threading_batch_size + 1

\* show_threading keeping the width the window had at startup
show_threading_fixed_width(a, last_row) ==
    [k \in 1..DefaultBatch |->
        LET thread == ThreadingStart(a) + (k - 1)
        IN Slot(thread, thread > 0, thread <= 0 \/ thread > last_row)]

\* MyApp::show_threading, lines 336-358
show_threading(a, last_row) ==
    [k \in 1..a.threading_batch_size |->
        LET thread == ThreadingStart(a) + (k - 1)
        IN Slot(thread, thread > 0, thread <= 0 \/ thread > last_row)]

\* MyApp::show_liftplan, line 268
LiftplanOffsets == <<-2, -1, 0, 1, 2, 3, 4, 5, 6>>

\* show_liftplan over the nine rows centred on the current one
show_liftplan_centred(a, last_row) ==
    [k \in 1..Len(LiftplanOffsets) |->
        LET row_num == a.row + (k - 5)
            outside == row_num <= 0 \/ row_num > last_row
        IN Slot(row_num, ~outside, outside)]

\* MyApp::show_liftplan, lines 268-286
show_liftplan(a, last_row) ==
    [k \in 1..Len(LiftplanOffsets) |->
        LET row_num == a.row + LiftplanOffsets[k]
            outside == row_num <= 0 \/ row_num > last_row
        IN Slot(row_num, ~outside, outside)]

\* MyApp::update, lines 480-486
show(a, last_row) ==
    IF a.mode = Threading THEN show_threading(a, last_row)
    ELSE show_liftplan(a, last_row)

(***************************************************************************)
(* One pass of MyApp::update over a pattern snapshot w, the pedal value    *)
(* read at its start, the operator's input ui and the time t: the new      *)
(* fields of MyApp and the record of what the cycle did.                   *)
(***************************************************************************)
Cycle(a, w, pedal, ui, t) ==
    LET last_row == LastRow(a, w)              \* lines 423-427
        a1 == menus(a, ui)                     \* line 435
        a2 == row_counter(a1, ui, last_row, t) \* line 441
        a3 == threading_controls(a2, ui)       \* lines 442-454
        a4 == control_buttons(a3, ui, pedal, last_row, t)  \* line 455
        a5 == timings(a4, ui)                  \* line 456
        a6 == pause_buttons(a5, ui, t)         \* lines 458-464
    IN [app |-> a6,
        frame |-> [ui |-> ui,
                   pedal |-> pedal,
                   last_row |-> last_row,
                   before |-> Active(a3),
                   advanced |-> NextFires(ui, pedal),
                   retreated |-> ui.kind = "prev",
                   recorded |-> NextFires(ui, pedal) /\ ~a3.timer_paused,
                   sample |-> IF NextFires(ui, pedal) /\ ~a3.timer_paused
                              THEN t - a3.last_t ELSE 0,
                   eta |-> Eta(a4, last_row),
                   window |-> show(a6, last_row)]]

(***************************************************************************)
(* Initial states: MyApp::new.                                             *)
(***************************************************************************)
\* the Ewma built by MyApp::new when none is stored: Ewma::new(0.1)
DefaultEwma == EwmaNew(Rat(1, 10))

\* lines 91-103 with an empty store
DefaultApp ==
    [row |-> 1, warp |-> 1, average_row_speed |-> DefaultEwma, last_t |-> 0,
     timer_paused |-> FALSE, mode |-> Liftplan, threading_mode |-> Continuous,
     threading_batch_size |-> DefaultBatch]

Idle == [pc |-> "idle", wif |-> FallbackWif, pedal |-> FALSE]

NoFrame ==
    [ui |-> NoUi, pedal |-> FALSE, last_row |-> 0, before |-> 0,
     advanced |-> FALSE, retreated |-> FALSE, recorded |-> FALSE,
     sample |-> 0, eta |-> None, window |-> <<>>]

\* presses: stores of true by the watcher; pending: those of them the flag
\* still stands for (no load has returned them yet); seen: those the load
\* of the running cycle returned; erased: those overwritten by a store of
\* false before any load returned them; advances: cycles whose load
\* returned true
NoObs == [presses |-> 0, pending |-> 0, seen |-> 0, erased |-> 0, advances |-> 0]

\* prev: the last two finished cycles, the latest first, each as the kind
\* of its input, its time and the active position it found
Short(f, t) == [kind |-> f.ui.kind, at |-> t, before |-> f.before]
NoPrev == <<Short(NoFrame, 0), Short(NoFrame, 0)>>

\* run: a run of Advances with nothing else moving the position: the
\* position and sample count it started from, the Advances done, and
\* whether the timer was running throughout
NoRun == [start |-> 0, n0 |-> 0, steps |-> 0, clean |-> TRUE]
StartRun(a) ==
    [start |-> Active(a), n0 |-> a.average_row_speed.n, steps |-> 0,
     clean |-> ~a.timer_paused]

\* loaders: one record per thread File > Open may have alive at once: where
\* the thread stands (no thread, in the file dialog, reading the file,
\* before its write of wif, before its write of wif_path) and its locals
\* fname and parsed; a thread that ended leaves its locals behind
NoLoader == [pc |-> "none", fname |-> "", parsed |-> FallbackWif]
NoLoaders == [i \in 1..MaxLoaders |-> NoLoader]
FreeLoaders(ls) == {i \in DOMAIN ls : ls[i].pc = "none"}

\* MyApp::menus, lines 175-179: std::thread::spawn of a loader
Spawn(ls) ==
    LET i == CHOOSE j \in FreeLoaders(ls) : \A k \in FreeLoaders(ls) : j <= k
    IN [ls EXCEPT ![i] = [NoLoader EXCEPT !.pc = "dialog"]]

\* the keys MyApp keeps in the store, and the store with nothing in it
Keys == {"row", "warp", "mode", "wif_path", "average_row_speed",
         "threading_mode", "threading_batch_size"}
EmptyStore == [k \in Keys |-> None]

\* lines 81-86 and 96-97: the stored path, and the pattern read from it
InitPattern ==
    \E p \in {None} \cup {Some(f) : f \in Files} :
        /\ wif_path = p
        /\ wif = IF p = None THEN FallbackWif ELSE FileWif(p[1])

Init ==
    /\ app = DefaultApp
    /\ InitPattern
    /\ pedal_pressed = FALSE
    /\ now = 0
    /\ upd = Idle
    /\ frame = NoFrame
    /\ prev = NoPrev
    /\ run = NoRun
    /\ obs = NoObs
    /\ loaders = NoLoaders
    /\ storage = EmptyStore

(***************************************************************************)
(* The clock.                                                              *)
(***************************************************************************)
Tick ==
    /\ now < MaxTime
    /\ now' = now + 1
    /\ UNCHANGED <<app, wif, wif_path, pedal_pressed, upd, frame, prev, run, obs,
                   loaders, storage>>

(***************************************************************************)
(* MyApp::update.  Its reads of the shared state come first (lines         *)
(* 415-416); the clearing store of line 417 and the rest of the cycle,     *)
(* which touches MyApp's own fields only, follow.                          *)
(***************************************************************************)
\* UpdateLoad with a load that never returns the pedal's store
UpdateLoadMissesPedal ==
    /\ upd.pc = "idle"
    /\ upd' = [pc |-> "body", wif |-> wif, pedal |-> FALSE]
    /\ UNCHANGED <<app, wif, wif_path, pedal_pressed, now, frame, prev, run,
                   obs, loaders, storage>>

\* lines 415-416: wif.read().clone() and pedal_pressed.load(Acquire)
UpdateLoad ==
    /\ upd.pc = "idle"
    /\ upd' = [pc |-> "body", wif |-> wif, pedal |-> pedal_pressed]
    /\ obs' = [obs EXCEPT !.seen = IF pedal_pressed THEN obs.pending ELSE 0,
                          !.pending = IF pedal_pressed THEN 0 ELSE @]
    /\ UNCHANGED <<app, wif, wif_path, pedal_pressed, now, frame, prev, run,
                   loaders, storage>>

\* the inputs the widgets shown in the state a can produce
UiEvents(a) ==
    {NoUi, Ui("next", 0, ""), Ui("prev", 0, ""), Ui("reset", 0, "")}
    \cup {Ui("set", v, "") : v \in 0..(MaxCount + 2)}
    \cup {Ui("mode", 0, m) : m \in OperationMode}
    \cup (IF threading_mode(a)
          THEN {Ui("submode", 0, m) : m \in ThreadingMode}
               \cup {Ui("batch", v, "") : v \in {0, 2, MaxBatch + 1}}
          ELSE {})
    \cup (IF a.timer_paused THEN {Ui("unpause", 0, "")} ELSE {Ui("pause", 0, "")})
    \cup (IF FreeLoaders(loaders) # {} THEN {Ui("open", 0, "")} ELSE {})

\* UpdateBody reading the shared pattern again instead of its snapshot
UpdateBodyRereads(ui) ==
    /\ upd.pc = "body"
    /\ LET c == Cycle(app, wif, upd.pedal, ui, now)
       IN /\ c.app.average_row_speed.n <= MaxSamples
          /\ app' = c.app
          /\ frame' = c.frame
          /\ obs' = IF upd.pedal
                    THEN [obs EXCEPT !.advances = @ + 1,
                                     !.erased = @ + obs.pending,
                                     !.pending = 0]
                    ELSE obs
    /\ pedal_pressed' = IF upd.pedal THEN FALSE ELSE pedal_pressed
    /\ loaders' = IF ui.kind = "open" THEN Spawn(loaders) ELSE loaders
    /\ upd' = Idle
    /\ UNCHANGED <<wif, wif_path, now, storage>>

\* lines 417-487 under the input ui
UpdateBody(ui) ==
    /\ upd.pc = "body"
    /\ LET c == Cycle(app, upd.wif, upd.pedal, ui, now)
       IN /\ c.app.average_row_speed.n <= MaxSamples
          /\ app' = c.app
          /\ frame' = c.frame
          /\ obs' = IF upd.pedal
                    THEN [obs EXCEPT !.advances = @ + 1,
                                     !.erased = @ + obs.pending,
                                     !.pending = 0]
                    ELSE obs
    /\ pedal_pressed' = IF upd.pedal THEN FALSE ELSE pedal_pressed
    /\ loaders' = IF ui.kind = "open" THEN Spawn(loaders) ELSE loaders
    /\ upd' = Idle
    /\ UNCHANGED <<wif, wif_path, now, storage>>

\* an update cycle whose input is of one of the given kinds
UpdateOf(kinds) ==
    \E ui \in {u \in UiEvents(app) : u.kind \in kinds} : UpdateBody(ui)

(***************************************************************************)
(* Navigation and timing: the application built without the pedal, the     *)
(* operator stepping through one pattern in the mode restored at startup.  *)
(***************************************************************************)
NavKinds == {"none", "next", "prev", "set", "reset", "pause", "unpause"}

\* lines 80 and 100: the mode is restored from the store
InitNav ==
    /\ \E m \in OperationMode : app = [DefaultApp EXCEPT !.mode = m]
    /\ InitPattern
    /\ pedal_pressed = FALSE
    /\ now = 0
    /\ upd = Idle
    /\ frame = NoFrame
    /\ prev = NoPrev
    /\ run = NoRun
    /\ obs = NoObs
    /\ loaders = NoLoaders
    /\ storage = EmptyStore

Update == UpdateOf(NavKinds) /\ UNCHANGED <<prev, run>>

Next == Tick \/ UpdateLoad \/ Update

Spec == InitNav /\ [][Next]_vars

(***************************************************************************)
(* Stepping: the operator only steps forward and back and pauses the       *)
(* timer, from any position of the pattern restored at startup, with no    *)
(* time passing.  The history variables prev and run follow the cycles.    *)
(***************************************************************************)
StepKinds == {"none", "next", "prev", "pause", "unpause"}

\* lines 78-79, 92-93: row and warp are restored from the store
InitSteps ==
    /\ \E m \in OperationMode, p \in 1..(MaxCount + 1) :
          app = SetActive([DefaultApp EXCEPT !.mode = m], p)
    /\ InitPattern
    /\ Active(app) <= LastRow(app, wif)
    /\ pedal_pressed = FALSE
    /\ now = 0
    /\ upd = Idle
    /\ frame = NoFrame
    /\ prev = NoPrev
    /\ run = StartRun(app)
    /\ obs = NoObs
    /\ loaders = NoLoaders
    /\ storage = EmptyStore

\* the run goes on through an Advance and through a cycle that leaves the
\* position alone; it starts again after a Retreat and once it is complete
FollowRun ==
    run' = IF frame'.retreated \/ (frame'.advanced /\ run.steps = frame'.last_row)
           THEN StartRun(app')
           ELSE [run EXCEPT !.steps = IF frame'.advanced THEN @ + 1 ELSE @,
                            !.clean = @ /\ ~app'.timer_paused]

UpdateSteps ==
    /\ UpdateOf(StepKinds)
    /\ prev' = <<Short(frame', now), prev[1]>>
    /\ FollowRun

NextSteps == UpdateLoad \/ UpdateSteps

SpecSteps == InitSteps /\ [][NextSteps]_vars

(***************************************************************************)
(* Pausing: the operator steps forward and pauses and resumes the timer    *)
(* while time passes.  prev follows the cycles.                            *)
(***************************************************************************)
PauseKinds == {"none", "next", "pause", "unpause"}

UpdatePause ==
    /\ UpdateOf(PauseKinds)
    /\ prev' = <<Short(frame', now), prev[1]>>
    /\ UNCHANGED run

NextPause == Tick \/ UpdateLoad \/ UpdatePause

SpecPause == InitNav /\ [][NextPause]_vars

(***************************************************************************)
(* The pedal (feature "rpi"): the watcher thread of watch_pedal stores     *)
(* true on every falling edge, concurrently with the update cycles.        *)
(***************************************************************************)
\* src/src/app/pedal.rs, lines 27-32
Press ==
    /\ obs.presses < MaxPresses
    /\ pedal_pressed' = TRUE
    /\ obs' = [obs EXCEPT !.presses = @ + 1, !.pending = @ + 1]
    /\ UNCHANGED <<app, wif, wif_path, now, upd, frame, prev, run,
                   loaders, storage>>

PedalKinds == {"none", "next"}

UpdatePedal == UpdateOf(PedalKinds) /\ UNCHANGED <<prev, run>>

NextPedal == Press \/ UpdateLoad \/ UpdatePedal

SpecPedal == Init /\ [][NextPedal]_vars

(***************************************************************************)
(* The threading window: the application restored in Threading mode at any *)
(* thread of a wide pattern, with any batch size and either policy.        *)
(***************************************************************************)
WideWif == MkWif(Some(MaxThread), Some(MaxThread))

InitThreading ==
    /\ \E t \in 1..MaxThread, b \in MinBatch..MaxBatch, m \in ThreadingMode :
          app = [DefaultApp EXCEPT !.mode = Threading, !.warp = t,
                                   !.threading_batch_size = b,
                                   !.threading_mode = m]
    /\ wif = WideWif
    /\ wif_path = Some("wide.wif")
    /\ pedal_pressed = FALSE
    /\ now = 0
    /\ upd = Idle
    /\ frame = NoFrame
    /\ prev = NoPrev
    /\ run = NoRun
    /\ obs = NoObs
    /\ loaders = NoLoaders
    /\ storage = EmptyStore

ThreadingKinds == {"none", "submode"}

UpdateThreading == UpdateOf(ThreadingKinds) /\ UNCHANGED <<prev, run>>

NextThreading == UpdateLoad \/ UpdateThreading

SpecThreading == InitThreading /\ [][NextThreading]_vars

(***************************************************************************)
(* The estimator: the application restored with any stored estimator, the  *)
(* operator stepping forward and resetting the timer while time passes.    *)
(***************************************************************************)
\* smoothing factors and smoothed values a stored estimator may hold
Alphas == {Rat(0, 1), Rat(1, 10), Rat(1, 2), Rat(1, 1)}
StoredValues == {RInt(0), Rat(3, 2)}

EwmaKinds == {"none", "next", "reset"}

\* lines 83-84 and 94: the estimator is restored from the store as stored
InitEwma ==
    /\ \E al \in Alphas, v \in StoredValues, n \in 0..1 :
          app = [DefaultApp EXCEPT
                    !.average_row_speed = [alpha |-> al, value |-> v, n |-> n]]
    /\ wif = FallbackWif
    /\ wif_path = None
    /\ pedal_pressed = FALSE
    /\ now = 0
    /\ upd = Idle
    /\ frame = NoFrame
    /\ prev = NoPrev
    /\ run = NoRun
    /\ obs = NoObs
    /\ loaders = NoLoaders
    /\ storage = EmptyStore

UpdateEwma ==
    /\ UpdateOf(EwmaKinds)
    /\ prev' = <<Short(frame', now), prev[1]>>
    /\ UNCHANGED run

NextEwma == Tick \/ UpdateLoad \/ UpdateEwma

SpecEwma == InitEwma /\ [][NextEwma]_vars

(***************************************************************************)
(* Mode switching: the operator switches between the modes, steps forward, *)
(* sets the position and pauses the timer while time passes.               *)
(***************************************************************************)
ModeKinds == {"none", "mode", "set", "next", "pause", "unpause"}

UpdateMode == UpdateOf(ModeKinds) /\ UNCHANGED <<prev, run>>

NextMode == Tick \/ UpdateLoad \/ UpdateMode

SpecMode == Init /\ [][NextMode]_vars

(***************************************************************************)
(* The loader thread spawned by File > Open (MyApp::menus, lines 179-201). *)
(* It shares wif and wif_path with the update cycles and takes each write  *)
(* lock on its own.                                                        *)
(***************************************************************************)
\* what the file dialog can return besides the patterns of Files: a file
\* that cannot be read, a file that is no WIF, and a pattern whose file
\* name is not valid UTF-8
Unreadable == "missing.wif"
Unparsable == "broken.wif"
NonUtf8 == "caf<E9>.wif"
DiskFiles == Files \cup {Unreadable, Unparsable, NonUtf8}

\* lines 185-186 (and 82-85): std::fs::read_to_string, then wif::parse;
\* None when either fails
ReadAndParse(f) ==
    IF f \in {Unreadable, Unparsable} THEN None ELSE Some(FileWif(f))

\* AfterRead with Wif::default() installed when the file fails to load
AfterReadDefaultOnError(l) ==
    [l EXCEPT !.pc = "write_wif",
              !.parsed = UnwrapOr(ReadAndParse(l.fname), MkWif(None, None))]

\* lines 185-199: the thread after read_to_string and wif::parse: it goes
\* on to its writes with the parsed pattern, or prints the error and ends
AfterRead(l) ==
    LET r == ReadAndParse(l.fname)
    IN IF r = None THEN [l EXCEPT !.pc = "none"]
       ELSE [l EXCEPT !.pc = "write_wif", !.parsed = r[1]]

\* lines 180-184: pick_file() returns a file, or None when cancelled
LoaderPick(i) ==
    /\ loaders[i].pc = "dialog"
    /\ \/ loaders' = [loaders EXCEPT ![i].pc = "none"]
       \/ \E f \in DiskFiles :
             loaders' = [loaders EXCEPT ![i].pc = "read", ![i].fname = f]
    /\ UNCHANGED <<app, wif, wif_path, pedal_pressed, now, upd, frame, prev, run,
                   obs, storage>>

\* lines 185-190 and 196-198: the file is read and parsed
LoaderRead(i) ==
    /\ loaders[i].pc = "read"
    /\ loaders' = [loaders EXCEPT ![i] = AfterRead(loaders[i])]
    /\ UNCHANGED <<app, wif, wif_path, pedal_pressed, now, upd, frame, prev, run,
                   obs, storage>>

\* LoaderWriteWif sending the operator back to the first row and thread
LoaderWriteWifRewinds(i) ==
    /\ loaders[i].pc = "write_wif"
    /\ wif' = loaders[i].parsed
    /\ app' = [app EXCEPT !.row = 1, !.warp = 1]
    /\ loaders' = [loaders EXCEPT ![i].pc = "write_path"]
    /\ UNCHANGED <<wif_path, pedal_pressed, now, upd, frame, prev, run,
                   obs, storage>>

\* line 191: *wif.write().unwrap() = parsed
LoaderWriteWif(i) ==
    /\ loaders[i].pc = "write_wif"
    /\ wif' = loaders[i].parsed
    /\ loaders' = [loaders EXCEPT ![i].pc = "write_path"]
    /\ UNCHANGED <<app, wif_path, pedal_pressed, now, upd, frame, prev, run,
                   obs, storage>>

\* lines 192-193: *wif_path.write().unwrap() = Some(fname), and the thread ends
LoaderWritePath(i) ==
    /\ loaders[i].pc = "write_path"
    /\ wif_path' = Some(loaders[i].fname)
    /\ loaders' = [loaders EXCEPT ![i].pc = "none"]
    /\ UNCHANGED <<app, wif, pedal_pressed, now, upd, frame, prev, run,
                   obs, storage>>

Loader ==
    \E i \in 1..MaxLoaders :
        LoaderPick(i) \/ LoaderRead(i) \/ LoaderWriteWif(i) \/ LoaderWritePath(i)

(***************************************************************************)
(* Loading: the application started with an empty store; the operator     *)
(* opens pattern files while stepping forward, setting the position and    *)
(* switching the mode.                                                     *)
(***************************************************************************)
LoadKinds == {"none", "next", "set", "mode", "open"}

\* MyApp::new with nothing stored: every field takes its default
InitFresh ==
    /\ app = DefaultApp
    /\ wif = FallbackWif
    /\ wif_path = None
    /\ pedal_pressed = FALSE
    /\ now = 0
    /\ upd = Idle
    /\ frame = NoFrame
    /\ prev = NoPrev
    /\ run = NoRun
    /\ obs = NoObs
    /\ loaders = NoLoaders
    /\ storage = EmptyStore

UpdateWithLoads == UpdateOf(LoadKinds) /\ UNCHANGED <<prev, run>>

NextLoad == UpdateLoad \/ UpdateWithLoads \/ Loader

SpecLoad == InitFresh /\ [][NextLoad]_vars

(***************************************************************************)
(* Opening: the operator opens pattern files, good and bad, and sets the   *)
(* position in between.                                                    *)
(***************************************************************************)
OpenKinds == {"none", "set", "open"}

UpdateWithOpens == UpdateOf(OpenKinds) /\ UNCHANGED <<prev, run>>

NextOpen == UpdateLoad \/ UpdateWithOpens \/ Loader

SpecOpen == InitFresh /\ [][NextOpen]_vars

(***************************************************************************)
(* Persistence (save_serialized, load_serialized, MyApp::new and           *)
(* MyApp::save).  A stored string is modelled by what serde_json reads in  *)
(* it: null, a number (written as an integer or not), a string, an object  *)
(* of numeric members, or text that is not JSON.                           *)
(***************************************************************************)
Text(j, s, x, int, members) ==
    [j |-> j, s |-> s, x |-> x, int |-> int, members |-> members]
JNull == Text("null", "", RInt(0), FALSE, <<>>)
JInt(n) == Text("num", "", RInt(n), TRUE, <<>>)
JFloat(x) == Text("num", "", x, FALSE, <<>>)
JStr(s) == Text("str", s, RInt(0), FALSE, <<>>)
JObj(members) == Text("obj", "", RInt(0), FALSE, members)
Garbage == Text("garbage", "", RInt(0), FALSE, <<>>)
Member(name, text) == [name |-> name, x |-> text.x, int |-> text.int]

\* whether a file name is valid UTF-8 (Path::to_str is Some)
IsUtf8(p) == p # NonUtf8

\* serde_json::to_string of each persisted type: Some(text), or None when
\* serialization fails
ToJsonU32(n) == Some(JInt(n))
\* the enums are #[serde(rename_all = "lowercase")], lines 38-51
ToJsonOperationMode(m) == Some(JStr(m))
ToJsonThreadingMode(m) == Some(JStr(m))
\* Ewma derives Serialize: an object of its three fields
ToJsonEwma(e) ==
    Some(JObj(<<Member("alpha", JFloat(e.alpha)), Member("value", JFloat(e.value)),
                Member("n", JInt(e.n))>>))
\* Arc<RwLock<Option<PathBuf>>>: None is written as null, Some(path) as the
\* path's string; a path that is not valid UTF-8 fails to serialize
ToJsonWifPath(p) ==
    IF p = None THEN Some(JNull)
    ELSE IF IsUtf8(p[1]) THEN Some(JStr(p[1])) ELSE None

\* serde_json::from_str(..).ok() at each persisted type (the upper limits
\* of u32 and usize lie beyond the numbers drawn)
FromJsonU32(t) ==
    IF t.j = "num" /\ t.int /\ t.x[1] >= 0 THEN Some(t.x[1]) ELSE None
FromJsonOperationMode(t) ==
    IF t.j = "str" /\ t.s \in OperationMode THEN Some(t.s) ELSE None
FromJsonThreadingMode(t) ==
    IF t.j = "str" /\ t.s \in ThreadingMode THEN Some(t.s) ELSE None
\* wif_path is read back as a PathBuf (line 81): a string, never null
FromJsonPathBuf(t) == IF t.j = "str" THEN Some(t.s) ELSE None
\* Ewma derives Deserialize: each field exactly once, of its type
FromJsonEwma(t) ==
    LET At(name) == {i \in 1..Len(t.members) : t.members[i].name = name}
        The(name) == t.members[CHOOSE i \in At(name) : TRUE]
    IN IF /\ t.j = "obj"
          /\ \A name \in {"alpha", "value", "n"} : Cardinality(At(name)) = 1
          /\ The("n").int /\ The("n").x[1] >= 0
       THEN Some([alpha |-> The("alpha").x, value |-> The("value").x,
                  n |-> The("n").x[1]])
       ELSE None

\* save_serialized, lines 53-60: the string is stored only if
\* serialization succeeds
save_serialized(st, key, serialized) ==
    IF serialized = None THEN st ELSE [st EXCEPT ![key] = serialized]

\* serde_json::from_str::<T>(..).ok(), T named by type
FromJson(type, t) ==
    CASE type = "u32" -> FromJsonU32(t)
      [] type = "OperationMode" -> FromJsonOperationMode(t)
      [] type = "ThreadingMode" -> FromJsonThreadingMode(t)
      [] type = "PathBuf" -> FromJsonPathBuf(t)
      [] type = "Ewma" -> FromJsonEwma(t)

\* load_serialized::<T>, lines 62-71
load_serialized(st, key, type) ==
    IF st[key] = None THEN None ELSE FromJson(type, st[key][1])

\* MyApp::new with the first field that fails to load resetting them all
NewAllOrNothing(st, t) ==
    IF \E k \in Keys : st[k] = None \/ st[k][1].j \in {"garbage", "null"}
    THEN [app |-> [DefaultApp EXCEPT !.last_t = t],
          wif |-> FallbackWif, wif_path |-> None]
    ELSE [app |-> [row |-> st["row"][1].x[1], warp |-> st["warp"][1].x[1],
                   average_row_speed |->
                       UnwrapOr(FromJsonEwma(st["average_row_speed"][1]), DefaultEwma),
                   last_t |-> t, timer_paused |-> FALSE,
                   mode |-> st["mode"][1].s,
                   threading_mode |-> st["threading_mode"][1].s,
                   threading_batch_size |-> st["threading_batch_size"][1].x[1]],
          wif |-> UnwrapOr(ReadAndParse(st["wif_path"][1].s), FallbackWif),
          wif_path |-> Some(st["wif_path"][1].s)]

\* MyApp::new, lines 74-104, started at time t: MyApp's fields and the two
\* shared cells it creates
New(st, t) ==
    LET row == load_serialized(st, "row", "u32")
        warp == load_serialized(st, "warp", "u32")
        mode == load_serialized(st, "mode", "OperationMode")
        path == load_serialized(st, "wif_path", "PathBuf")
        file == IF path = None THEN None ELSE ReadAndParse(path[1])
        average_row_speed == load_serialized(st, "average_row_speed", "Ewma")
        sub_mode == load_serialized(st, "threading_mode", "ThreadingMode")
        threading_batch_size ==
            load_serialized(st, "threading_batch_size", "u32")
    IN [app |-> [row |-> UnwrapOr(row, 1),
                 warp |-> UnwrapOr(warp, 1),
                 average_row_speed |-> UnwrapOr(average_row_speed, DefaultEwma),
                 last_t |-> t,
                 timer_paused |-> FALSE,
                 mode |-> UnwrapOr(mode, Liftplan),
                 threading_mode |-> UnwrapOr(sub_mode, Continuous),
                 threading_batch_size |-> UnwrapOr(threading_batch_size, DefaultBatch)],
        wif |-> UnwrapOr(file, FallbackWif),
        wif_path |-> path]

\* MyApp::save, lines 403-411, over MyApp's fields a and the path cell
Save(st, a, path) ==
    LET s1 == save_serialized(st, "row", ToJsonU32(a.row))
        s2 == save_serialized(s1, "warp", ToJsonU32(a.warp))
        s3 == save_serialized(s2, "mode", ToJsonOperationMode(a.mode))
        s4 == save_serialized(s3, "wif_path", ToJsonWifPath(path))
        s5 == save_serialized(s4, "average_row_speed", ToJsonEwma(a.average_row_speed))
        s6 == save_serialized(s5, "threading_mode", ToJsonThreadingMode(a.threading_mode))
    IN save_serialized(s6, "threading_batch_size", ToJsonU32(a.threading_batch_size))

\* the process starts: eframe hands the store to MyApp::new
Start ==
    /\ upd.pc \in {"off", "exited"}
    /\ LET c == New(storage, now)
       IN /\ app' = c.app
          /\ wif' = c.wif
          /\ wif_path' = c.wif_path
    /\ pedal_pressed' = FALSE
    /\ upd' = Idle
    /\ frame' = NoFrame
    /\ loaders' = NoLoaders
    /\ UNCHANGED <<now, prev, run, obs, storage>>

\* the window is closed (File > Quit, lines 204-206, or the window's close
\* button): eframe calls MyApp::save between two cycles and the process,
\* its loader threads included, ends
Exit ==
    /\ upd.pc = "idle"
    /\ storage' = Save(storage, app, wif_path)
    /\ upd' = [Idle EXCEPT !.pc = "exited"]
    /\ loaders' = NoLoaders
    /\ UNCHANGED <<app, wif, wif_path, pedal_pressed, now, frame, prev, run, obs>>

(***************************************************************************)
(* Restoring: the application is started on a store in which each key is   *)
(* absent, holds a string that does not parse at the field's type, or      *)
(* holds a value; the operator then switches the mode and edits the batch  *)
(* size.                                                                   *)
(***************************************************************************)
\* the values found stored under each key
StoredValue ==
    [row |-> {3},
     warp |-> {2},
     mode |-> {Threading},
     wif_path |-> {Some("small.wif"), Some(Unreadable)},
     average_row_speed |-> {[alpha |-> Rat(1, 2), value |-> Rat(3, 2), n |-> 2]},
     threading_mode |-> {Batched},
     threading_batch_size |-> {0, 5, MaxBatch + 1}]

\* the string MyApp::save stores for the value v of the field of key k
Stored(k, v) ==
    CASE k \in {"row", "warp", "threading_batch_size"} -> ToJsonU32(v)
      [] k = "mode" -> ToJsonOperationMode(v)
      [] k = "threading_mode" -> ToJsonThreadingMode(v)
      [] k = "average_row_speed" -> ToJsonEwma(v)
      [] k = "wif_path" -> ToJsonWifPath(v)

\* strings that do not parse at the type of the field of key k
Unparsed ==
    [row |-> {JStr("3")},
     warp |-> {Garbage},
     mode |-> {JStr(Batched)},
     wif_path |-> {JNull},
     average_row_speed |-> {JObj(<<Member("alpha", JFloat(Rat(1, 2))),
                                  Member("value", JFloat(Rat(3, 2)))>>)},
     threading_mode |-> {JInt(1)},
     threading_batch_size |-> {JFloat(Rat(3, 2))}]

\* what may be found under key k: nothing, an unparsable string, a value
Entries(k) ==
    {None} \cup {Some(t) : t \in Unparsed[k]} \cup {Stored(k, v) : v \in StoredValue[k]}

\* before the first start: no process, and any store
InitOff ==
    /\ \E r \in Entries("row"), w \in Entries("warp"), m \in Entries("mode"),
          p \in Entries("wif_path"), e \in Entries("average_row_speed"),
          s \in Entries("threading_mode"), b \in Entries("threading_batch_size") :
          storage = [row |-> r, warp |-> w, mode |-> m, wif_path |-> p,
                     average_row_speed |-> e, threading_mode |-> s,
                     threading_batch_size |-> b]
    /\ app = DefaultApp
    /\ wif = FallbackWif
    /\ wif_path = None
    /\ pedal_pressed = FALSE
    /\ now = 0
    /\ upd = [Idle EXCEPT !.pc = "off"]
    /\ frame = NoFrame
    /\ prev = NoPrev
    /\ run = NoRun
    /\ obs = NoObs
    /\ loaders = NoLoaders

RestoreKinds == {"none", "mode", "batch"}

UpdateRestored == UpdateOf(RestoreKinds) /\ UNCHANGED <<prev, run>>

NextRestore == Start \/ UpdateLoad \/ UpdateRestored

SpecRestore == InitOff /\ [][NextRestore]_vars

(***************************************************************************)
(* Saving: the application is started on an empty store or on one saved    *)
(* by an earlier session, used (steps forward, pattern files opened),      *)
(* quit and started again on what it saved.                                *)
(***************************************************************************)
\* a store as an earlier session left it
EarlierStore ==
    Save(EmptyStore,
         [DefaultApp EXCEPT !.row = 2, !.warp = 2, !.mode = Threading,
                            !.threading_mode = Batched,
                            !.threading_batch_size = 5,
                            !.average_row_speed =
                                [alpha |-> Rat(1, 10), value |-> Rat(3, 2), n |-> 2]],
         Some("small.wif"))

InitStored ==
    /\ storage \in {EmptyStore, EarlierStore}
    /\ app = DefaultApp
    /\ wif = FallbackWif
    /\ wif_path = None
    /\ pedal_pressed = FALSE
    /\ now = 0
    /\ upd = [Idle EXCEPT !.pc = "off"]
    /\ frame = NoFrame
    /\ prev = NoPrev
    /\ run = NoRun
    /\ obs = NoObs
    /\ loaders = NoLoaders

SaveKinds == {"none", "next", "open"}

UpdateBeforeSave == UpdateOf(SaveKinds) /\ UNCHANGED <<prev, run>>

NextSave == UpdateLoad \/ UpdateBeforeSave \/ Loader \/ Exit \/ Start

SpecSave == InitStored /\ [][NextSave]_vars

(***************************************************************************)
(* Ewma::record on its own: an estimator with any smoothing factor, value  *)
(* and sample count, and samples recorded into it one after the other.     *)
(***************************************************************************)
InitRecord ==
    /\ \E al \in Alphas, v \in StoredValues, n \in 0..MaxN :
          app = [DefaultApp EXCEPT
                    !.average_row_speed = [alpha |-> al, value |-> v, n |-> n]]
    /\ wif = FallbackWif
    /\ wif_path = None
    /\ pedal_pressed = FALSE
    /\ now = 0
    /\ upd = Idle
    /\ frame = NoFrame
    /\ prev = NoPrev
    /\ run = NoRun
    /\ obs = NoObs
    /\ loaders = NoLoaders
    /\ storage = EmptyStore

\* self.average_row_speed.record(measurement), as lines 147-148 call it
Record ==
    /\ run.steps < MaxRecords
    /\ \E m \in 0..MaxTime :
          /\ app' = [app EXCEPT !.average_row_speed = EwmaRecord(@, RInt(m))]
          /\ frame' = [NoFrame EXCEPT !.recorded = TRUE, !.sample = m]
    /\ run' = [run EXCEPT !.steps = @ + 1]
    /\ UNCHANGED <<wif, wif_path, pedal_pressed, now, upd, prev, obs, loaders,
                   storage>>

NextRecord == Record

SpecRecord == InitRecord /\ [][NextRecord]_vars

(***************************************************************************)
(* Stepping back: the operator steps forward and back and pauses and       *)
(* resumes the timer while time passes.  prev follows the cycles.          *)
(***************************************************************************)
RetreatKinds == {"none", "next", "prev", "pause", "unpause"}

UpdateRetreat ==
    /\ UpdateOf(RetreatKinds)
    /\ prev' = <<Short(frame', now), prev[1]>>
    /\ UNCHANGED run

NextRetreat == Tick \/ UpdateLoad \/ UpdateRetreat

SpecRetreat == InitNav /\ [][NextRetreat]_vars

(***************************************************************************)
(* Reloading while stepping: in every cycle the operator steps back,       *)
(* switches Mode or opens a pattern file of another size.                  *)
(***************************************************************************)
ReloadKinds == {"prev", "mode", "open"}

\* no loader thread is alive
NoLoad == \A i \in DOMAIN loaders : loaders[i].pc = "none"

\* the operator opens a file only when the last load has ended
UpdateWithReloads ==
    /\ UpdateOf(ReloadKinds)
    /\ frame'.ui.kind = "open" => NoLoad
    /\ UNCHANGED <<prev, run>>

NextReload == UpdateLoad \/ UpdateWithReloads \/ Loader

SpecReload == InitFresh /\ [][NextReload]_vars

(***************************************************************************)
(* The time estimate: the application started with an estimator restored   *)
(* from the store, short and long durations among them, the operator       *)
(* stepping and resetting the timer.                                       *)
(***************************************************************************)
\* stored smoothed durations, in seconds
EtaValues == {RInt(0), Rat(1, 10), Rat(3, 20), Rat(3, 2), RInt(61), RInt(3700)}

InitEta ==
    /\ \E v \in EtaValues, n \in 0..1 :
          app = [DefaultApp EXCEPT
                    !.average_row_speed = [alpha |-> Rat(1, 10), value |-> v, n |-> n]]
    /\ wif = FallbackWif
    /\ wif_path = None
    /\ pedal_pressed = FALSE
    /\ now = 0
    /\ upd = Idle
    /\ frame = NoFrame
    /\ prev = NoPrev
    /\ run = NoRun
    /\ obs = NoObs
    /\ loaders = NoLoaders
    /\ storage = EmptyStore

EtaKinds == {"none", "next", "prev", "reset"}

UpdateEta == UpdateOf(EtaKinds) /\ UNCHANGED <<prev, run>>

NextEta == UpdateLoad \/ UpdateEta

SpecEta == InitEta /\ [][NextEta]_vars

(***************************************************************************)
(* Threading with a changing window: the operator switches the sub-mode    *)
(* and drags the batch size.  prev follows the cycles.                     *)
(***************************************************************************)
BatchKinds == {"none", "submode", "batch"}

UpdateBatch ==
    /\ UpdateOf(BatchKinds)
    /\ prev' = <<Short(frame', now), prev[1]>>
    /\ UNCHANGED run

NextBatch == UpdateLoad \/ UpdateBatch

SpecBatch == InitThreading /\ [][NextBatch]_vars

(***************************************************************************)
(* Counting samples: the operator steps forward and back, pauses, resumes  *)
(* and resets the timer, switches Mode and opens pattern files.            *)
(***************************************************************************)
CountKinds == {"next", "prev", "set", "pause", "unpause", "reset", "mode", "open"}

\* run.steps counts the cycles of a session of at most MaxCycles cycles
UpdateCount ==
    /\ run.steps < MaxCycles
    /\ UpdateOf(CountKinds)
    /\ run' = [run EXCEPT !.steps = @ + 1]
    /\ UNCHANGED prev

NextCount == UpdateLoad \/ UpdateCount \/ Loader

SpecCount == InitFresh /\ [][NextCount]_vars

(***************************************************************************)
(* The subtraction of the time estimate: sessions started with a restored  *)
(* estimator in which the operator steps back by button and forward by     *)
(* pedal, switches Mode and opens pattern files.                           *)
(***************************************************************************)
\* line 87: an estimator restored with one sample of a second and a half,
\* so that the estimate is shown from the first cycle on
InitSubtract ==
    /\ app = [DefaultApp EXCEPT
                 !.average_row_speed = [alpha |-> Rat(1, 10), value |-> Rat(3, 2), n |-> 1]]
    /\ wif = FallbackWif
    /\ wif_path = None
    /\ pedal_pressed = FALSE
    /\ now = 0
    /\ upd = Idle
    /\ frame = NoFrame
    /\ prev = NoPrev
    /\ run = NoRun
    /\ obs = NoObs
    /\ loaders = NoLoaders
    /\ storage = EmptyStore

SubtractKinds == {"none", "prev", "mode", "open"}

\* run.steps counts the cycles of a session of at most MaxCycles cycles;
\* the operator opens a file only when the last load has ended
UpdateSubtract ==
    /\ run.steps < MaxCycles
    /\ UpdateOf(SubtractKinds)
    /\ frame'.ui.kind = "open" => NoLoad
    /\ run' = [run EXCEPT !.steps = @ + 1]
    /\ UNCHANGED prev

NextSubtract == Press \/ UpdateLoad \/ UpdateSubtract \/ Loader

SpecSubtract == InitSubtract /\ [][NextSubtract]_vars

(***************************************************************************)
(* The pedal under fair scheduling.  The watcher asks for a repaint after  *)
(* every store (pedal.rs, line 30); the request stands from the store      *)
(* until the next cycle starts, that is, while a stored press has not been *)
(* read.  eframe runs update when a repaint is requested, and update       *)
(* neither blocks nor waits, so a cycle that starts also ends.             *)
(***************************************************************************)
\* a repaint asked for by the watcher is outstanding
RepaintRequested == obs.pending > 0

FairKinds == {"none", "prev", "pause", "unpause"}

UpdateFair == UpdateOf(FairKinds) /\ UNCHANGED <<prev, run>>

NextFair == Press \/ UpdateLoad \/ UpdateFair

\* the step by which a running cycle returns: in every state of a running
\* cycle UpdateFair is enabled, and its steps are the steps that return
Returns == upd.pc = "body" /\ upd' = Idle

\* a requested repaint is served, and a cycle that runs returns
Fairness ==
    /\ WF_vars(UpdateLoad /\ RepaintRequested)
    /\ WF_upd(Returns)

SpecFair == Init /\ [][NextFair]_vars /\ Fairness

(***************************************************************************)
(* Properties.                                                             *)
(***************************************************************************)
\* a step that finishes an update cycle
CycleEnds == upd.pc = "body" /\ upd'.pc = "idle"

sample_count(a) == a.average_row_speed.n
smoothed_duration(a) == a.average_row_speed.value

\* the position one Advance (one Retreat) away from p, as the claims state it
StepForward(p, last_index) == IF p < last_index THEN p + 1 ELSE 1
StepBack(p, last_index) == IF p > 1 THEN p - 1 ELSE last_index

\* C1: for every last_index >= 1 and every starting position p in
\* [1, last_index], last_index Advances in a row, with the mode and the
\* pattern unchanged, bring the active position back to p.
C1_FullCycleReturns ==
    run.steps = LastRow(app, wif) => Active(app) = run.start

C1_Witness ==
    /\ run.steps = LastRow(app, wif)
    /\ LastRow(app, wif) >= 3
    /\ run.start = 2
    /\ frame.advanced
    /\ Active(app) = 2

\* C2: Advance maps p to p+1 when p < last_index and to 1 when
\* p = last_index; Retreat maps p to p-1 when p > 1 and to last_index (never
\* to 0) when p = 1.
C2_AdvanceRetreatMap ==
    [][CycleEnds =>
        /\ (frame'.advanced /\ ~frame'.retreated) =>
              Active(app') = StepForward(frame'.before, frame'.last_row)
        /\ (frame'.retreated /\ ~frame'.advanced) =>
              /\ Active(app') = StepBack(frame'.before, frame'.last_row)
              /\ Active(app') # 0]_vars

C2_Witness ==
    /\ frame.retreated
    /\ frame.before = 1
    /\ frame.last_row >= 2
    /\ Active(app) = frame.last_row

\* C3: an Advance from a position p other than last_index, followed at once
\* by a Retreat, leaves the active position at p.
C3_RetreatUndoesAdvance ==
    (/\ prev[1].kind = "prev"
     /\ prev[2].kind = "next"
     /\ prev[2].before # LastRow(app, wif)) => Active(app) = prev[2].before

C3_Witness ==
    /\ prev[1].kind = "prev"
    /\ prev[2].kind = "next"
    /\ prev[2].before = 2
    /\ LastRow(app, wif) >= 3
    /\ prev[1].before = 3
    /\ Active(app) = 2

\* C4: in a pattern with last_index = 4, from position 1 with a fresh
\* estimator and the timer never paused, three Advances lead to position 4,
\* a fourth wraps to position 1, and exactly 4 samples have been recorded.
C4_FourAdvances ==
    (/\ LastRow(app, wif) = 4
     /\ run.start = 1
     /\ run.n0 = 0
     /\ run.clean) =>
        /\ run.steps = 3 => (Active(app) = 4 /\ sample_count(app) = 3)
        /\ run.steps = 4 => (Active(app) = 1 /\ sample_count(app) = 4)

C4_Witness ==
    /\ LastRow(app, wif) = 4
    /\ run.start = 1
    /\ run.n0 = 0
    /\ run.clean
    /\ run.steps = 4
    /\ Active(app) = 1
    /\ sample_count(app) = 4

\* C5: an Advance made while the timer is paused leaves sample_count and
\* smoothed_duration unchanged and restarts last_step_start; the Advance that
\* follows an Unpause records exactly one sample, the time elapsed since that
\* Unpause.
C5_PauseSemantics ==
    [][CycleEnds =>
        /\ (frame'.advanced /\ app.timer_paused) =>
              /\ app'.average_row_speed = app.average_row_speed
              /\ app'.last_t = now
        /\ (frame'.advanced /\ prev[1].kind = "unpause") =>
              app'.average_row_speed =
                  EwmaRecord(app.average_row_speed, RInt(now - prev[1].at))
        /\ (frame'.advanced /\ prev[1].kind = "none" /\ prev[2].kind = "unpause") =>
              app'.average_row_speed =
                  EwmaRecord(app.average_row_speed, RInt(now - prev[2].at))]_vars

C5_Witness ==
    /\ prev[1].kind = "next"
    /\ prev[2].kind = "unpause"
    /\ prev[2].at = 1
    /\ prev[1].at = 2
    /\ frame.recorded
    /\ frame.sample = 1
    /\ sample_count(app) = 1
    /\ smoothed_duration(app) = RInt(1)

\* C6: an update cycle advances at most once; with a click on "Next" and a
\* latched pedal press both pending in one cycle, the active position moves
\* by exactly one step and at most one sample is recorded.
C6_SingleAdvance ==
    [][CycleEnds =>
        /\ Active(app') \in {frame'.before,
                             StepForward(frame'.before, frame'.last_row)}
        /\ sample_count(app') <= sample_count(app) + 1
        /\ (upd.pedal /\ frame'.ui.kind = "next") =>
              Active(app') = StepForward(frame'.before, frame'.last_row)]_vars

C6_Witness ==
    /\ frame.pedal
    /\ frame.ui.kind = "next"
    /\ frame.last_row >= 3
    /\ frame.before = 1
    /\ Active(app) = 2
    /\ sample_count(app) = 1

\* C7: no press stored by the pedal watcher is erased by the update cycle's
\* clearing store without a load of the flag having returned it.
C7_NoPressLost == obs.erased = 0

\* C8: the pedal flag is a latch of depth 1: the presses stored since the
\* flag was last read, however many, cause exactly one Advance in the cycle
\* that reads them, and the cycles advanced by the pedal never outnumber
\* the presses.
C8_CoalescingLatch ==
    /\ [](obs.advances <= obs.presses)
    /\ [][(CycleEnds /\ obs.seen >= 1) =>
            /\ frame'.pedal
            /\ frame'.advanced
            /\ Active(app') = StepForward(frame'.before, frame'.last_row)]_vars

C8_Witness ==
    /\ upd.pc = "idle"
    /\ obs.seen = 2
    /\ obs.presses = 2
    /\ obs.advances = 1
    /\ frame.pedal
    /\ frame.ui.kind = "none"
    /\ frame.last_row >= 3
    /\ Active(app) = frame.before + 1

\* a cycle has drawn the threading window
ThreadingShown == frame.window # <<>> /\ app.mode = Threading

\* the indices of the window are consecutive and ascending from first
ConsecutiveFrom(window, first) ==
    \A k \in 1..Len(window) : window[k].index = first + (k - 1)

\* C9 as stated: with the Continuous policy, for every BatchSize in [1, 25],
\* the current thread is the third column of the window.
C9_ThirdColumnAlways ==
    (ThreadingShown /\ app.threading_mode = Continuous) =>
        (Len(frame.window) >= 3 /\ frame.window[3].index = app.warp)

\* C9, amended: with the Continuous policy, for every current thread >= 1
\* and every BatchSize in [1, 25], the window is the BatchSize consecutive
\* indices from current_thread - 2 (8..=15 for thread 10 and BatchSize 8);
\* the current thread is its third column when BatchSize >= 3 and lies past
\* its end when BatchSize < 3; slots of index below 1 are placeholders.
C9_ContinuousWindow ==
    (ThreadingShown /\ app.threading_mode = Continuous) =>
        /\ Len(frame.window) = app.threading_batch_size
        /\ ConsecutiveFrom(frame.window, app.warp - 2)
        /\ app.threading_batch_size >= 3 => frame.window[3].index = app.warp
        /\ app.threading_batch_size < 3 =>
              \A k \in 1..Len(frame.window) : frame.window[k].index < app.warp
        /\ \A k \in 1..Len(frame.window) :
              frame.window[k].index < 1 =>
                  (frame.window[k].placeholder /\ ~frame.window[k].lookup)
        /\ (app.warp = 10 /\ app.threading_batch_size = 8) =>
              (frame.window[1].index = 8 /\ frame.window[8].index = 15)

C9_Witness ==
    /\ ThreadingShown
    /\ app.threading_mode = Continuous
    /\ app.warp = 10
    /\ app.threading_batch_size = 8
    /\ frame.window[3].index = 10
    /\ frame.window[8].index = 15

\* C10: with the Batched policy, for every current thread >= 1 and every
\* BatchSize B in [1, 25], the window is [start, start + B) with
\* start = floor((current_thread - 1) / B) * B + 1: start is congruent to 1
\* modulo B, the window contains the current thread, and every thread of
\* the batch yields the same window (9..=16 for thread 10 and B = 8,
\* 17..=24 for thread 17).
C10_BatchedWindow ==
    (ThreadingShown /\ app.threading_mode = Batched) =>
        LET B == app.threading_batch_size
            start == frame.window[1].index
        IN /\ Len(frame.window) = B
           /\ ConsecutiveFrom(frame.window, start)
           /\ start = ((app.warp - 1) \div B) * B + 1
           /\ (start - 1) % B = 0
           /\ start <= app.warp /\ app.warp < start + B
           /\ \A t \in start..(start + B - 1) :
                 show_threading([app EXCEPT !.warp = t], frame.last_row)
                     = frame.window
           /\ (app.warp = 10 /\ B = 8) => (start = 9 /\ frame.window[8].index = 16)
           /\ (app.warp = 17 /\ B = 8) => (start = 17 /\ frame.window[8].index = 24)

C10_Witness ==
    /\ ThreadingShown
    /\ app.threading_mode = Batched
    /\ app.warp = 10
    /\ app.threading_batch_size = 8
    /\ frame.window[1].index = 9
    /\ frame.window[8].index = 16

\* a slot of the displayed window whose index is outside 1..last_row
OutsideSlots ==
    {k \in 1..Len(frame.window) :
        frame.window[k].index <= 0 \/ frame.window[k].index > frame.last_row}

\* C11: in every mode's window computation, a window slot whose index is
\* <= 0 or > last_index never triggers a lookup in the pattern data
\* (threading, liftplan, treadling, colour) and always yields a placeholder
\* entry.
C11_NoLookupOutside ==
    \A k \in OutsideSlots :
        frame.window[k].placeholder /\ ~frame.window[k].lookup

\* C12: record(sample) on an estimator with sample_count = 0 leaves
\* smoothed_duration exactly equal to sample, for any alpha in [0, 1], and
\* sample_count = 1.
C12_FirstSample ==
    [][(CycleEnds /\ frame'.recorded /\ sample_count(app) = 0) =>
          /\ smoothed_duration(app') = RInt(frame'.sample)
          /\ sample_count(app') = 1]_vars

C12_Witness ==
    /\ frame.recorded
    /\ frame.sample = 2
    /\ sample_count(app) = 1
    /\ smoothed_duration(app) = RInt(2)
    /\ app.average_row_speed.alpha = Rat(1, 10)

\* C13: after reset(), sample_count = 0 and smoothed_duration = 0 whatever
\* the history; alpha is unchanged; the next record(sample) behaves as the
\* first sample and leaves smoothed_duration exactly equal to sample.
C13_ResetForgets ==
    [][/\ (CycleEnds /\ frame'.ui.kind = "reset") =>
             /\ sample_count(app') = 0
             /\ smoothed_duration(app') = RInt(0)
             /\ app'.average_row_speed.alpha = app.average_row_speed.alpha
       /\ (CycleEnds /\ frame.ui.kind = "reset" /\ frame'.recorded) =>
             /\ smoothed_duration(app') = RInt(frame'.sample)
             /\ sample_count(app') = 1]_vars

\* two steps forward, a reset, and the first sample after it
C13_Witness ==
    /\ app.row = 4
    /\ prev[2].kind = "reset"
    /\ prev[1].kind = "next"
    /\ frame.recorded
    /\ frame.sample = 1
    /\ sample_count(app) = 1
    /\ smoothed_duration(app) = RInt(1)
    /\ app.average_row_speed.alpha = Rat(1, 2)

\* a step that finishes an update cycle in which the operator switched Mode
ModeSwitched == CycleEnds /\ frame'.ui.kind = "mode" /\ app'.mode # app.mode

\* both stored positions lie inside their sections of the pattern w
BothInRange(a, w) ==
    /\ 1 <= a.row /\ a.row <= UnwrapOr(w.weft, 1)
    /\ 1 <= a.warp /\ a.warp <= UnwrapOr(w.warp, 1)

\* C14: switching Mode does not alter either stored position: when row is
\* in [1, weft count] and thread is in [1, warp count], the update cycle in
\* which the operator switches Mode leaves both row and thread equal to
\* their values before the cycle, for any pattern, including one whose weft
\* and warp counts differ.
C14_ModeSwitchKeepsPositions ==
    [][(ModeSwitched /\ BothInRange(app, upd.wif)) =>
          (app'.row = app.row /\ app'.warp = app.warp)]_vars

\* C15: switching Mode resets no timing state: sample_count,
\* smoothed_duration, alpha, last_step_start and paused are all unchanged
\* by a mode switch.
C15_ModeSwitchKeepsTiming ==
    [][ModeSwitched =>
          /\ app'.average_row_speed = app.average_row_speed
          /\ app'.last_t = app.last_t
          /\ app'.timer_paused = app.timer_paused]_vars

\* C16: at the end of every update cycle, after any sequence of Advance,
\* Retreat, direct set, mode switch, pedal press and pattern reload, the
\* active position p satisfies 1 <= p <= last_index, where last_index is
\* the thread count, in the pattern snapshot used by that cycle, of the
\* mode active at the end of that cycle (patterns with last_index >= 1).
C16_ActiveInRange ==
    [][CycleEnds =>
          /\ LastRow(app', upd.wif) >= 1
          /\ 1 <= Active(app')
          /\ Active(app') <= LastRow(app', upd.wif)]_vars

\* the patterns an update cycle may see whole: the built-in one and the
\* files that read and parse
WholePatterns ==
    {FallbackWif} \cup {FileWif(f) : f \in {g \in DiskFiles : ReadAndParse(g) # None}}

\* loader i takes a step on a file that cannot be read or parsed
FailsToLoad(i) ==
    /\ loaders[i].pc = "read"
    /\ ReadAndParse(loaders[i].fname) = None
    /\ loaders'[i] # loaders[i]

\* C17: a failed pattern load (file unreadable or unparsable) leaves the
\* shared pattern data and the stored pattern path exactly as they were
\* before the attempt, and leaves position, mode and estimator unchanged;
\* no partially loaded pattern is ever visible to an update cycle.
C17_FailedLoadChangesNothing ==
    [][/\ \A i \in 1..MaxLoaders :
             FailsToLoad(i) =>
                 /\ loaders'[i].pc = "none"
                 /\ wif' = wif /\ wif_path' = wif_path /\ app' = app
       /\ wif' # wif =>
             \E i \in 1..MaxLoaders :
                 /\ loaders[i].pc = "write_wif"
                 /\ ReadAndParse(loaders[i].fname) = Some(wif')
       /\ wif_path' # wif_path =>
             \E i \in 1..MaxLoaders :
                 /\ loaders[i].pc = "write_path"
                 /\ ReadAndParse(loaders[i].fname) # None
                 /\ wif_path' = Some(loaders[i].fname)
       /\ upd'.pc = "body" => upd'.wif \in WholePatterns]_vars

\* a pattern was opened, the position set, and a later File > Open ended
\* on a file that is no WIF
C17_Witness ==
    /\ loaders[1].pc = "none"
    /\ loaders[1].fname = Unparsable
    /\ wif = FileWif("small.wif")
    /\ wif_path = Some("small.wif")
    /\ app.row = 2
    /\ upd.pc = "body"

\* a step that starts the application
Started == upd.pc \in {"off", "exited"} /\ upd'.pc = "idle"

\* the value of the field of key k in the state made by MyApp::new
Field(c, k) == IF k = "wif_path" THEN c.wif_path ELSE c.app[k]

\* the default of the field of key k
DefaultOf(k) ==
    CASE k = "row" -> 1
      [] k = "warp" -> 1
      [] k = "mode" -> Liftplan
      [] k = "wif_path" -> None
      [] k = "average_row_speed" -> EwmaNew(Rat(1, 10))
      [] k = "threading_mode" -> Continuous
      [] k = "threading_batch_size" -> 8

\* C18: at startup each persisted field (row, thread, mode, sub-mode, batch
\* size, estimator, pattern path) is restored independently: a field that
\* is missing or unparsable takes its default (row = 1, thread = 1, mode
\* Liftplan, sub-mode Continuous, batch size 8, a fresh estimator with
\* alpha 0.1, the built-in fallback pattern) without affecting the other
\* fields, and startup never fails.
C18_RestoreEachField ==
    [][/\ Started =>
             LET c == [app |-> app', wif |-> wif', wif_path |-> wif_path']
             IN /\ \A k \in Keys :
                      /\ (storage[k] = None \/ storage[k][1] \in Unparsed[k]) =>
                             Field(c, k) = DefaultOf(k)
                      /\ \A v \in StoredValue[k] :
                             storage[k] = Stored(k, v) => Field(c, k) = v
                      /\ \A j \in Keys \ {k} : \A e \in Entries(j) :
                             Field(New([storage EXCEPT ![j] = e], now), k)
                                 = Field(c, k)
                /\ wif' = IF wif_path' # None /\ ReadAndParse(wif_path'[1]) # None
                          THEN FileWif(wif_path'[1]) ELSE FallbackWif
       /\ (upd.pc \in {"off", "exited"}) => ENABLED Start]_vars

\* a start on a store whose row and batch size do not parse and whose
\* other keys hold values
C18_Witness ==
    /\ upd.pc = "idle" /\ frame = NoFrame
    /\ storage["row"] = Some(JStr("3"))
    /\ storage["threading_batch_size"] = Some(JFloat(Rat(3, 2)))
    /\ storage["wif_path"] = Some(JStr("small.wif"))
    /\ app.row = 1
    /\ app.threading_batch_size = 8
    /\ app.warp = 2
    /\ app.mode = Threading
    /\ app.threading_mode = Batched
    /\ app.average_row_speed = [alpha |-> Rat(1, 2), value |-> Rat(3, 2), n |-> 2]
    /\ wif_path = Some("small.wif")
    /\ wif = FileWif("small.wif")

\* the application is running
Running == upd.pc \in {"idle", "body"}

\* C20: in every reachable state, including the state right after
\* restoring persisted settings, BatchSize is an integer in [1, 25]; in
\* particular the Batched window computation never divides by a BatchSize
\* of 0.
C20_BatchSizeInRange ==
    Running =>
        /\ app.threading_batch_size \in 1..25
        /\ ThreadingShown => Len(frame.window) \in 1..25

\* a step that starts the application on the store it saved when it quit
Restarted == upd.pc = "exited" /\ upd'.pc = "idle"

\* C19: save followed by restore is a round trip for the persisted fields:
\* for every reachable engine state, a startup that reads back the saved
\* snapshot yields the same row, thread, mode, sub-mode, batch size and
\* estimator state (alpha, smoothed_duration, sample_count), and the same
\* pattern path.
C19_SaveRestoreRoundTrip ==
    [][Restarted =>
          /\ app'.row = app.row
          /\ app'.warp = app.warp
          /\ app'.mode = app.mode
          /\ app'.threading_mode = app.threading_mode
          /\ app'.threading_batch_size = app.threading_batch_size
          /\ app'.average_row_speed = app.average_row_speed
          /\ wif_path' = wif_path]_vars

\* the weight the rule gives the sample after n samples, for the smoothing
\* factor al = <<p, q>>: al + (1 - al)/(1 + n) = (p*n + q) / (q*(1 + n))
RuleWeight(al, n) ==
    IF n < 20 THEN Rat(al[1] * n + al[2], al[2] * (1 + n)) ELSE al

\* value = w*sample + (1 - w)*old, multiplied out over the denominators
Blend(value, w, sample, old) ==
    value[1] * w[2] * old[2]
        = value[2] * (w[1] * sample * old[2] + (w[2] - w[1]) * old[1])

\* a step that records a sample into an estimator holding n >= 1 samples
RecordsAfterFirst ==
    /\ frame'.recorded
    /\ run'.steps # run.steps
    /\ sample_count(app) >= 1

\* C21 as stated: record(sample) follows the piecewise rule on the
\* sample_count n held before the call: for 1 <= n < 20 the new value is
\* w*sample + (1-w)*old with w = alpha + (1 - alpha)/(1 + n); for n >= 20
\* it is alpha*sample + (1-alpha)*old; in every case n increases by exactly
\* 1.  The weight w stays within (alpha, 1] and moves monotonically toward
\* alpha as n grows to 20.
C21_RuleStrictWeight ==
    [][RecordsAfterFirst =>
          LET e == app.average_row_speed
              w == RuleWeight(e.alpha, e.n)
          IN /\ Blend(smoothed_duration(app'), w, frame'.sample, e.value)
             /\ sample_count(app') = e.n + 1
             /\ \A n \in 1..19 :
                   /\ RLess(e.alpha, RuleWeight(e.alpha, n))
                   /\ ~RLess(RInt(1), RuleWeight(e.alpha, n))
                   /\ RLess(RuleWeight(e.alpha, n + 1), RuleWeight(e.alpha, n))]_vars

\* C21: record(sample) follows the piecewise rule on the sample_count n
\* held before the call: for 1 <= n < 20 the new value is
\* w*sample + (1-w)*old with w = alpha + (1 - alpha)/(1 + n); for n >= 20
\* it is alpha*sample + (1-alpha)*old; in every case n increases by exactly
\* 1.  For alpha in [0, 1] the weight w stays within [alpha, 1] and never
\* moves away from alpha as n grows to 20; for alpha < 1 it stays within
\* (alpha, 1] and strictly decreases; for alpha = 1 it is 1 throughout.
C21_RecordRule ==
    [][RecordsAfterFirst =>
          LET e == app.average_row_speed
              w == RuleWeight(e.alpha, e.n)
          IN /\ Blend(smoothed_duration(app'), w, frame'.sample, e.value)
             /\ sample_count(app') = e.n + 1
             /\ \A n \in 1..19 :
                   /\ ~RLess(RuleWeight(e.alpha, n), e.alpha)
                   /\ ~RLess(RInt(1), RuleWeight(e.alpha, n))
                   /\ ~RLess(RuleWeight(e.alpha, n), RuleWeight(e.alpha, n + 1))
                   /\ RLess(e.alpha, RInt(1)) =>
                         /\ RLess(e.alpha, RuleWeight(e.alpha, n))
                         /\ RLess(RuleWeight(e.alpha, n + 1), RuleWeight(e.alpha, n))
                   /\ e.alpha = RInt(1) => RuleWeight(e.alpha, n) = RInt(1)]_vars

\* the last warm-up sample and the first steady one, recorded in a row
C21_Witness ==
    /\ run.steps = 2
    /\ sample_count(app) = 21
    /\ frame.recorded /\ frame.sample = 2
    /\ app.average_row_speed.alpha = Rat(1, 10)
    /\ ~RLess(smoothed_duration(app), RInt(1))

\* C22: Retreat never records a timing sample (sample_count and
\* smoothed_duration unchanged, paused or not) and always resets
\* last_step_start to now, so the sample recorded by an Advance that
\* follows a Retreat is the time elapsed since the Retreat, not since the
\* previous Advance.
C22_RetreatNeverRecords ==
    [][/\ (CycleEnds /\ frame'.retreated) =>
             /\ ~frame'.recorded
             /\ app'.average_row_speed = app.average_row_speed
             /\ app'.last_t = now
       /\ (CycleEnds /\ frame.retreated /\ frame'.recorded) =>
             /\ frame'.sample = now - prev[1].at
             /\ sample_count(app') = sample_count(app) + 1]_vars

\* an Advance at time 0, a Retreat at time 1, and an Advance at time 2
\* that records one second
C22_Witness ==
    /\ now = 2
    /\ prev[2].kind = "prev" /\ prev[2].at = 1
    /\ prev[1].kind = "next" /\ prev[1].at = 2
    /\ frame.recorded /\ frame.sample = 1
    /\ sample_count(app) = 2
    /\ ~app.timer_paused

\* the slots of window s for which pattern data is drawn
DataSlots(s) == {s[k].index : k \in {j \in DOMAIN s : s[j].lookup /\ ~s[j].placeholder}}

\* C23: each update cycle takes one snapshot of the pattern at its start
\* and derives last_index and every window lookup from that snapshot; a
\* swap of the pattern by the loader during the cycle does not reach it,
\* so no cycle uses the last_index of one pattern with the rows of another.
C23_OneSnapshotPerCycle ==
    [][CycleEnds =>
          /\ frame'.last_row = LastRow(app, upd.wif)
          /\ frame'.window = show(app', LastRow(app, upd.wif))
          /\ DataSlots(frame'.window) \subseteq 1..LastRow(app, upd.wif)]_vars

\* the loader has swapped the pattern after the cycle took its snapshot,
\* and the two patterns differ in last_index
C23_Witness ==
    /\ upd.pc = "body"
    /\ upd.wif # wif
    /\ LastRow(app, upd.wif) # LastRow(app, wif)
    /\ \E i \in DOMAIN loaders : loaders[i].pc = "write_path"

\* the update cycle that ends was given neither a typed position nor a
\* Mode switch
KeepsField == CycleEnds /\ frame'.ui.kind \notin {"set", "mode"}

Shown == IF frame'.ui.kind = "reset" THEN app.average_row_speed
         ELSE app'.average_row_speed

\* the whole seconds in the product of the count d and the duration v
WholeSeconds(d, v) ==
    CHOOSE e \in 0..(d * (v[1] \div v[2] + 1)) :
        e * v[2] <= d * v[1] /\ d * v[1] < (e + 1) * v[2]

\* C25: the ETA equals (last_index - active position) * smoothed_duration
\* truncated to whole seconds, shown as h = eta / 3600, m = (eta mod 3600)
\* / 60, s = eta mod 60; it is produced only when smoothed_duration > 0.1,
\* hence never before a sample has been recorded after a start with
\* defaults or a reset.
C25_EtaFormula ==
    [][CycleEnds =>
          LET v == Shown.value
              eta == WholeSeconds(frame'.last_row - Active(app'), v)
          IN /\ 10 * v[1] > v[2] =>
                   frame'.eta = Some(<<eta \div 3600, (eta % 3600) \div 60,
                                       eta % 60>>)
             /\ 10 * v[1] <= v[2] => frame'.eta = None
             /\ (Shown.n = 0 /\ v = RInt(0)) => frame'.eta = None
             /\ (frame.ui.kind = "reset" /\ ~frame'.recorded) =>
                   frame'.eta = None]_vars

\* an estimate of 3 h 05 m 00 s: three rows left at 3700 s a row
C25_Witness ==
    /\ upd.pc = "idle"
    /\ frame.eta = Some(<<3, 5, 0>>)
    /\ frame.last_row - Active(app) = 3
    /\ smoothed_duration(app) = RInt(3700)

\* a step that ends an update cycle showing the Liftplan or Treadling window
RowsShown == CycleEnds /\ app'.mode # Threading

\* the slots of window s before and after the one of index i
SlotsBefore(s, i) == {k \in DOMAIN s : s[k].index < i}
SlotsAfter(s, i) == {k \in DOMAIN s : s[k].index > i}

DirectStart(t, m, B) ==
    IF m = Continuous THEN t - 2
    ELSE CHOOSE s \in (t - B + 1)..t : (s - 1) % B = 0

\* C27: the threading window is a pure function of (current thread,
\* sub-mode, BatchSize) with no hysteresis: it has exactly BatchSize
\* consecutive ascending slots, and after any sequence of sub-mode and
\* BatchSize changes it equals the window computed directly from the final
\* triple.
C27_WindowOfTriple ==
    [][(CycleEnds /\ app'.mode = Threading) =>
          LET B == app'.threading_batch_size
              s == frame'.window
          IN /\ Len(s) = B
             /\ ConsecutiveFrom(s, DirectStart(app'.warp, app'.threading_mode, B))
             /\ \A k \in 1..B :
                   s[k].placeholder <=> s[k].index \notin 1..frame'.last_row]_vars

\* thread 10 after a switch to Batched and a drag of the batch size to 2:
\* the window is 9..=10
C27_Witness ==
    /\ upd.pc = "idle"
    /\ prev[2].kind = "submode"
    /\ prev[1].kind = "batch"
    /\ app.warp = 10
    /\ app.threading_mode = Batched
    /\ app.threading_batch_size = 2
    /\ Len(frame.window) = 2
    /\ frame.window[1].index = 9
    /\ frame.window[2].index = 10

\* C28: sample_count always equals the number of unpaused Advances since
\* the last reset: each Advance made while the timer runs adds exactly 1;
\* Retreat, a typed position, a mode switch, pause, unpause and a pattern
\* reload add 0; "Reset timer" sets it to 0.
C28_SampleCount ==
    [][/\ CycleEnds =>
             sample_count(app') =
                IF frame'.ui.kind = "reset" THEN 0
                ELSE IF frame'.ui.kind = "next" /\ ~app.timer_paused
                     THEN sample_count(app) + 1
                     ELSE sample_count(app)
       /\ ~CycleEnds => sample_count(app') = sample_count(app)]_vars

\* an Advance that added 1, a pause, and an Advance that added 0
C28_Witness ==
    /\ upd.pc = "idle"
    /\ run.steps = 3
    /\ app.timer_paused
    /\ frame.ui.kind = "next"
    /\ frame.advanced /\ ~frame.recorded
    /\ sample_count(app) = 1

\* loader i, holding a file that read and parsed, writes the pattern or the
\* path
Swaps(i) ==
    /\ loaders[i].pc \in {"write_wif", "write_path"}
    /\ loaders'[i] # loaders[i]

\* C29: a successful pattern load changes only the pattern data and the
\* stored pattern path: at the swap, row, thread, mode, sub-mode, batch
\* size, paused flag, last_step_start and the estimator are all unchanged
\* (the position is clamped by a later update cycle, not by the load).
C29_LoadChangesPatternOnly ==
    [][\A i \in 1..MaxLoaders :
          Swaps(i) =>
             /\ app' = app
             /\ pedal_pressed' = pedal_pressed
             /\ loaders[i].pc = "write_wif" =>
                   /\ wif' = FileWif(loaders[i].fname)
                   /\ wif_path' = wif_path
             /\ loaders[i].pc = "write_path" =>
                   /\ wif_path' = Some(loaders[i].fname)
                   /\ wif' = wif]_vars

\* two Advances, then File > Open of a pattern with two rows: the load is
\* complete and the position is still row 3, with both samples kept
C29_Witness ==
    /\ upd.pc = "idle"
    /\ loaders[1].pc = "none"
    /\ wif = FileWif("small.wif")
    /\ wif_path = Some("small.wif")
    /\ app.row = 3
    /\ sample_count(app) = 2
    /\ run.steps = 3

\* C30: whenever the ETA is computed, the unsigned subtraction
\* last_index - active position does not underflow: the active position
\* used by timings is at most the last_index passed to it in every update
\* cycle, those with a mode switch, a pedal press or a freshly reloaded
\* smaller pattern included.
C30_NoUnderflow ==
    [][(CycleEnds /\ frame'.eta # None) =>
          /\ frame'.last_row - Active(app') >= 0
          /\ \A k \in 1..3 : frame'.eta[1][k] >= 0
          /\ frame'.eta[1][1] * 3600 + frame'.eta[1][2] * 60 + frame'.eta[1][3]
                <= frame'.last_row * (Shown.value[1] \div Shown.value[2] + 1)]_vars

\* row 4 of 4, File > Open of a pattern with two rows, then a pedal press:
\* the cycle clamps to row 2, wraps to row 1 and shows an estimate
C30_Witness ==
    /\ upd.pc = "idle"
    /\ run.steps = 3
    /\ wif = FileWif("small.wif")
    /\ frame.pedal
    /\ frame.last_row = 2
    /\ frame.before = 2
    /\ app.row = 1
    /\ sample_count(app) = 2
    /\ frame.eta = Some(<<0, 0, 0>>)

\* a press is stored that no Advance has followed yet, a cycles having
\* advanced by the pedal so far: it has not been read, or the running
\* cycle has read it
Unanswered(a) ==
    /\ obs.advances = a
    /\ obs.pending > 0 \/ (upd.pc = "body" /\ upd.pedal)

\* more than a cycles have advanced by the pedal, the last finished one
\* among them
Answered(a) ==
    /\ obs.advances > a
    /\ upd.pc = "idle"
    /\ frame.pedal /\ frame.advanced

\* C31: every pedal press is eventually followed by an Advance: with the
\* update cycle running whenever a repaint is requested, each store of
\* true by the watcher is followed by an Advance in the running or a later
\* update cycle, and the flag is false again after that cycle's consuming
\* step unless a new press arrived.
C31_PressLeadsToAdvance ==
    /\ \A a \in 0..MaxPresses : Unanswered(a) ~> Answered(a)
    /\ [][(CycleEnds /\ upd.pedal) =>
             /\ frame'.advanced
             /\ Active(app') =
                   IF frame'.ui.kind = "prev"
                   THEN StepBack(StepForward(frame'.before, frame'.last_row),
                                 frame'.last_row)
                   ELSE StepForward(frame'.before, frame'.last_row)
             /\ pedal_pressed' = FALSE]_vars
    /\ [][(pedal_pressed' /\ ~pedal_pressed) => obs'.presses = obs.presses + 1]_vars

\* two presses, the second stored while the cycle that read the first was
\* running: that cycle has advanced and left the flag false
C31_Witness ==
    /\ upd.pc = "idle"
    /\ obs.presses = 2
    /\ obs.erased = 1
    /\ obs.advances = 1
    /\ frame.pedal /\ frame.advanced
    /\ ~pedal_pressed
    /\ obs.pending = 0

====
